---- MODULE Spec2Model ----
(***************************************************************************)
(* dep-eval: scoring of a predicted dependency parse against a gold one.   *)
(* Model of src/main.rs: Numberer<V>, Confusion<V>, the scoring loop of    *)
(* main() and the reporting that follows it.                               *)
(*                                                                         *)
(* Option<T> is modelled as a sequence of at most one element:             *)
(* None = << >>, Some(x) = << x >>.  Vec<T> is a sequence; a Vec index i   *)
(* of the code is position i + 1 of the sequence.                          *)
(***************************************************************************)
EXTENDS Integers, Sequences, FiniteSets, TLC

VARIABLES
    \* ---- one run of main()
    pc,                  \* where main() is: "open", "read", "score", "print",
                         \* "write", "done", or ended early: "exit", "panic"
    corpus,              \* which pair of input files the run was given
    nread,               \* how many sentences each reader has been asked for
    val_read, pred_read, \* what the last read_sentence() of each reader gave
    val_sentence,        \* the gold sentence in hand: its nodes
    pred_sentence,       \* the predicted sentence in hand: its nodes
    idx,                 \* enumerate() index of the next zipped token pair
    val_token,           \* the token pair last taken from the zip, as
    pred_token,          \*   Option<[form, head, rel]>
    deprel_confusion,
    distance_confusion,
    correct_head,
    correct_head_label,
    total,
    stdout,              \* the lines printed so far
    matches,             \* the output options given on the command line
    step,                \* how many of the four output blocks were passed
    files,               \* what each option's destination file holds
    \* ---- a free-standing Numberer<usize> and the calls made on it
    nb,            \* the Numberer: [val2idx, idx2val]
    nb_call,       \* the last number() call: << >> or << [val, ret] >>
    nb_seen,       \* history: for each distinct value passed to number(), in
                   \* order of its first call, [val, ret] of that first call
    nb_calls,      \* history: how many number() calls were made
    \* ---- a free-standing Confusion<usize> and the calls made on it
    conf,          \* the Confusion: [confusion, numberer, name]
    conf_call,     \* the last insert() call: << >> or << [target, prediction] >>
    conf_seen,     \* history: the set of values passed to insert()
    conf_calls     \* history: how many insert() calls were made

scoreVars == << deprel_confusion, distance_confusion,
               correct_head, correct_head_label, total >>
loopVars  == << nread, val_read, pred_read, val_sentence, pred_sentence,
               idx, val_token, pred_token >>
outVars   == << stdout, matches, step, files >>
mainVars  == << pc, corpus, loopVars, scoreVars, outVars >>
nbVars   == << nb, nb_call, nb_seen, nb_calls >>
confVars == << conf, conf_call, conf_seen, conf_calls >>
unitVars == << nbVars, confVars >>
vars     == << mainVars, unitVars >>

\* ------------------------------------------------------------------ bounds
\* number() / insert() draw their arguments from 0 .. MaxVal
MaxVal == 2
\* at most MaxCalls number() calls on the free-standing Numberer
MaxCalls == 6
\* at most MaxInserts insert() calls on the free-standing Confusion
MaxInserts == 3
\* each input file of the corpus "any" holds at most MaxTotal tokens
MaxTotal == 2

Vals == 0 .. MaxVal

None == << >>
Some(x) == << x >>

\* ---------------------------------------------------------------- Numberer
\* Numberer::new
NumbererNew == [val2idx |-> << >>, idx2val |-> << >>]

\* number() forgetting to record the new value in val2idx
numberNoInsert(n, val) ==
    IF val \in DOMAIN n.val2idx
    THEN [numberer |-> n, idx |-> n.val2idx[val]]
    ELSE LET n_vals == Cardinality(DOMAIN n.val2idx)
         IN  [numberer |-> [val2idx |-> n.val2idx,
                            idx2val |-> Append(n.idx2val, val)],
              idx |-> n_vals]

\* number() taking the next index after the push, so indices start at one
numberFromOne(n, val) ==
    IF val \in DOMAIN n.val2idx
    THEN [numberer |-> n, idx |-> n.val2idx[val]]
    ELSE LET n_vals == Len(Append(n.idx2val, val))
         IN  [numberer |-> [val2idx |-> (val :> n_vals) @@ n.val2idx,
                            idx2val |-> Append(n.idx2val, val)],
              idx |-> n_vals]

\* Numberer::number: the Numberer after the call and the index returned
number(n, val) ==
    IF val \in DOMAIN n.val2idx
    THEN [numberer |-> n, idx |-> n.val2idx[val]]
    ELSE LET n_vals == Cardinality(DOMAIN n.val2idx)
         IN  [numberer |-> [val2idx |-> (val :> n_vals) @@ n.val2idx,
                            idx2val |-> Append(n.idx2val, val)],
              idx |-> n_vals]

\* Numberer::get_number
get_number(n, val) ==
    IF val \in DOMAIN n.val2idx THEN Some(n.val2idx[val]) ELSE None

\* Numberer::len
len(n) == Len(n.idx2val)

\* Numberer::is_empty
is_empty(n) == n.idx2val = << >>

\* Numberer::get_val
get_val(n, i) ==
    IF i + 1 \in DOMAIN n.idx2val THEN Some(n.idx2val[i + 1]) ELSE None

\* --------------------------------------------------------------- Confusion
\* Confusion::new
ConfusionNew(name) ==
    [confusion |-> << >>, numberer |-> NumbererNew, name |-> name]

\* a growth round that puts the new row and the new column in front of the
\* old ones, moving every old count one cell down and to the right
GrowOnceFront(m) ==
    LET pushed == << [j \in 1 .. Len(m) |-> 0] >> \o m
    IN  [i \in 1 .. Len(pushed) |-> << 0 >> \o pushed[i]]

\* one round of the growth loop of insert: push a row of len zeros, then
\* push one zero onto every row
GrowOnce(m) ==
    LET pushed == Append(m, [j \in 1 .. Len(m) |-> 0])
    IN  [i \in 1 .. Len(pushed) |-> Append(pushed[i], 0)]

\* the growth loop with an off-by-one bound: grows while idx >= len - 1
RECURSIVE GrowOffByOne(_, _, _)
GrowOffByOne(m, target_idx, pred_idx) ==
    IF target_idx >= Len(m) - 1 \/ pred_idx >= Len(m) - 1
    THEN GrowOffByOne(GrowOnce(m), target_idx, pred_idx)
    ELSE m

\* the while loop of insert
RECURSIVE Grow(_, _, _)
Grow(m, target_idx, pred_idx) ==
    IF target_idx >= Len(m) \/ pred_idx >= Len(m)
    THEN Grow(GrowOnce(m), target_idx, pred_idx)
    ELSE m

\* insert() counting in the transposed cell [pred_idx][target_idx]
insertTransposed(c, target, prediction) ==
    LET t == number(c.numberer, target)
        q == number(t.numberer, prediction)
        m == Grow(c.confusion, t.idx, q.idx)
    IN  [confusion |-> [m EXCEPT ![q.idx + 1][t.idx + 1] = @ + 1],
         numberer  |-> q.numberer,
         name      |-> c.name]

\* insert() that counts only when the matrix did not have to grow
insertGrowOrCount(c, target, prediction) ==
    LET t == number(c.numberer, target)
        q == number(t.numberer, prediction)
        m == Grow(c.confusion, t.idx, q.idx)
    IN  [confusion |-> IF Len(m) # Len(c.confusion) THEN m
                       ELSE [m EXCEPT ![t.idx + 1][q.idx + 1] = @ + 1],
         numberer  |-> q.numberer,
         name      |-> c.name]

\* Confusion::insert
insert(c, target, prediction) ==
    LET t == number(c.numberer, target)
        q == number(t.numberer, prediction)
        m == Grow(c.confusion, t.idx, q.idx)
    IN  [confusion |-> [m EXCEPT ![t.idx + 1][q.idx + 1] = @ + 1],
         numberer  |-> q.numberer,
         name      |-> c.name]

\* ------------------------------------------------------------------ main()
Abs(x) == IF x < 0 THEN 0 - x ELSE x
Min(a, b) == IF a <= b THEN a ELSE b

\* the argument names, as the statics hold them
DEPREL_CONFUSION    == "deprel_confusion"
DEPREL_ACCURACIES   == "deprel_accuracies"
DISTANCE_ACCURACIES == "distance_confusion"
DISTANCE_CONFUSION  == "distance_accuracies"

\* the options parse_args() declares with a value: each is given on the
\* command line as --<name> <file>
OutputOptions ==
    {DEPREL_CONFUSION, DISTANCE_CONFUSION, DISTANCE_ACCURACIES, DEPREL_ACCURACIES}

\* the four output blocks of main(), in order: the argument looked up, the
\* Confusion written and the rendering used (Display or write_accuracies)
OutputBlocks ==
    << [arg |-> DEPREL_CONFUSION,    of |-> "Deprels", render |-> "Display"],
       [arg |-> DEPREL_ACCURACIES,   of |-> "Deprels", render |-> "write_accuracies"],
       [arg |-> DISTANCE_CONFUSION,  of |-> "Dists",   render |-> "Display"],
       [arg |-> DISTANCE_ACCURACIES, of |-> "Dists",   render |-> "write_accuracies"] >>

\* ---- the input files, as the conllx reader delivers them
\* a sentence is a Root node followed by its tokens
Sentence(n) == << "Root" >> \o [i \in 1 .. n |-> "Token"]

\* sentence.iter().filter_map(|t| t.token()): the positions of the tokens
TokenNodes(sentence) == SelectSeq(sentence, LAMBDA node : node = "Token")

Forms == {"a", "b"}

\* the head and relation columns a token of the corpus "any" can have: a
\* subject of the root, or a subject or an object of the first token
Attachments == {<< 0, "nsubj" >>, << 1, "nsubj" >>, << 1, "obj" >>}

\* the tokens a file of the corpus "any" can hold at a position: with a
\* head and a relation, or (head column empty) with neither
AnyTokens ==
    {[form |-> f, head |-> Some(a[1]), rel |-> Some(a[2])] :
         f \in Forms, a \in Attachments}
        \cup [form : Forms, head : {None}, rel : {None}]

Tok(form, head, rel) == [form |-> form, head |-> Some(head), rel |-> Some(rel)]

\* the corpus "scenario": one sentence of three tokens in each file
ScenarioGold ==
    << Tok("w1", 2, "nsubj"), Tok("w2", 0, "root"), Tok("w3", 2, "obj") >>
ScenarioPred ==
    << Tok("w1", 2, "nsubj"), Tok("w2", 0, "root"), Tok("w3", 3, "obj") >>

Corpora == {"any", "scenario"}

\* what reader.read_sentence() can return: Ok(Some(sentence)), Ok(None), Err
ReadResults(scenario) ==
    IF corpus = "scenario"
    THEN IF nread = 0
         THEN {[kind |-> "Sentence", sentence |-> Sentence(Len(scenario))]}
         ELSE {[kind |-> "End", sentence |-> << >>]}
    ELSE {[kind |-> "End", sentence |-> << >>],
          [kind |-> "Err", sentence |-> << >>]}
         \cup {[kind |-> "Sentence", sentence |-> Sentence(n)] :
                   n \in 1 .. (MaxTotal - total)}

\* the tokens the file can hold at position i of the sentence in hand
TokensAt(scenario, i) ==
    IF corpus = "scenario" THEN {scenario[i]} ELSE AnyTokens

InitMain ==
    /\ pc = "open"
    /\ nread = 0
    /\ val_read = "unread"
    /\ pred_read = "unread"
    /\ val_sentence = << >>
    /\ pred_sentence = << >>
    /\ idx = 0
    /\ val_token = None
    /\ pred_token = None
    /\ deprel_confusion = ConfusionNew("Deprels")
    /\ distance_confusion = ConfusionNew("Dists")
    /\ correct_head = 0
    /\ correct_head_label = 0
    /\ total = 0
    /\ stdout = << >>
    /\ matches \in SUBSET OutputOptions
    /\ step = 0
    /\ files = [o \in OutputOptions |-> None]

\* lines 18-35: open both files; a validation file that cannot be opened
\* ends in or_exit(.., 1), a prediction file that cannot in main returning Err
OpenInputs ==
    /\ pc = "open"
    /\ \E val_ok \in BOOLEAN, pred_ok \in BOOLEAN :
         /\ corpus = "scenario" => val_ok /\ pred_ok
         /\ pc' = IF val_ok /\ pred_ok THEN "read" ELSE "exit"
    /\ UNCHANGED << corpus, loopVars, scoreVars, outVars, unitVars >>

\* the sentence length assertion left out
SentenceLenUnchecked(val_s, pred_s) == TRUE

\* line 38: assert_eq!(val_sentence.len(), pred_sentence.len())
SentenceLenCheck(val_s, pred_s) == Len(val_s) = Len(pred_s)

\* a zip that stops after the first token pair of a sentence
NumPairsFirstOnly ==
    Min(1, Min(Len(TokenNodes(val_sentence)), Len(TokenNodes(pred_sentence))))

\* how many pairs the zip of the two filtered sentences yields
NumPairs == Min(Len(TokenNodes(val_sentence)), Len(TokenNodes(pred_sentence)))

\* line 37-38: ask both readers for a sentence; leave the loop unless both
\* give one; panic unless the two sentences have the same length.  The
\* sentences and tokens of the round before are out of scope by now
ReadSentence ==
    /\ pc = "read"
    /\ \E v \in ReadResults(ScenarioGold), p \in ReadResults(ScenarioPred) :
         /\ val_read' = v.kind
         /\ pred_read' = p.kind
         /\ IF v.kind = "Sentence" /\ p.kind = "Sentence"
            THEN /\ val_sentence' = v.sentence
                 /\ pred_sentence' = p.sentence
                 /\ pc' = IF ~SentenceLenCheck(v.sentence, p.sentence) THEN "panic"
                          ELSE IF Min(Len(TokenNodes(v.sentence)),
                                      Len(TokenNodes(p.sentence))) = 0 THEN "read"
                          ELSE "score"
            ELSE /\ val_sentence' = << >>
                 /\ pred_sentence' = << >>
                 /\ pc' = "print"
    /\ nread' = nread + 1
    /\ idx' = 0
    /\ val_token' = None
    /\ pred_token' = None
    /\ UNCHANGED << corpus, scoreVars, outVars, unitVars >>

\* the form assertion left out
FormUnchecked(val_t, pred_t) == TRUE

\* line 44: assert_eq!(val_token.form(), pred_token.form())
FormCheck(val_t, pred_t) == val_t.form = pred_t.form

\* lines 46-53: dep_graph().head(idx).unwrap() and relation().unwrap() succeed
HasTriple(t) == t.head # None /\ t.rel # None

\* the distance taken from the 0-based enumerate index
DistZeroBased(head, i) == Abs(head - (i - 1))

\* lines 48, 52: i64::abs(head as i64 - idx as i64) as usize
Dist(head, i) == Abs(head - i)

\* the DepTriple of the token at 1-based position i
Triple(t, i) == [head |-> t.head[1], dependent |-> i, relation |-> t.rel]

\* the head count comparing the dependents, which are the same position
HeadCorrectByDependent(val_triple, pred_triple) ==
    pred_triple.dependent = val_triple.dependent

\* line 58: pred_head == val_head
HeadCorrect(val_triple, pred_triple) == pred_triple.head = val_triple.head

\* the labelled count comparing the relations only
RelationCorrect(val_triple, pred_triple) ==
    pred_triple.relation = val_triple.relation

\* line 59: pred_triple == val_triple
TripleCorrect(val_triple, pred_triple) == pred_triple = val_triple

\* a loop body that passes over a position without a head or a relation
ScoreTokenSkipMissing ==
    /\ pc = "score"
    /\ idx < NumPairs
    /\ \E val_t \in TokensAt(ScenarioGold, idx + 1),
          pred_t \in TokensAt(ScenarioPred, idx + 1) :
         /\ val_token' = Some(val_t)
         /\ pred_token' = Some(pred_t)
         /\ IF ~FormCheck(val_t, pred_t)
            THEN /\ pc' = "panic"
                 /\ UNCHANGED << idx, scoreVars >>
            ELSE /\ idx' = idx + 1
                 /\ pc' = IF idx + 1 < NumPairs THEN "score" ELSE "read"
                 /\ IF HasTriple(val_t) /\ HasTriple(pred_t)
                    THEN LET i           == idx + 1
                             val_triple  == Triple(val_t, i)
                             pred_triple == Triple(pred_t, i)
                         IN  /\ distance_confusion' =
                                    insert(distance_confusion,
                                           Dist(val_triple.head, i),
                                           Dist(pred_triple.head, i))
                             /\ deprel_confusion' =
                                    insert(deprel_confusion,
                                           val_triple.relation[1],
                                           pred_triple.relation[1])
                             /\ correct_head' = correct_head +
                                    (IF HeadCorrect(val_triple, pred_triple)
                                     THEN 1 ELSE 0)
                             /\ correct_head_label' = correct_head_label +
                                    (IF TripleCorrect(val_triple, pred_triple)
                                     THEN 1 ELSE 0)
                             /\ total' = total + 1
                    ELSE UNCHANGED scoreVars
    /\ UNCHANGED << corpus, nread, val_read, pred_read,
                    val_sentence, pred_sentence, outVars, unitVars >>

\* lines 39-61: one round of the for loop on the next zipped token pair
ScoreToken ==
    /\ pc = "score"
    /\ idx < NumPairs
    /\ \E val_t \in TokensAt(ScenarioGold, idx + 1),
          pred_t \in TokensAt(ScenarioPred, idx + 1) :
         /\ val_token' = Some(val_t)
         /\ pred_token' = Some(pred_t)
         /\ IF FormCheck(val_t, pred_t) /\ HasTriple(val_t) /\ HasTriple(pred_t)
            THEN LET i           == idx + 1
                     val_triple  == Triple(val_t, i)
                     pred_triple == Triple(pred_t, i)
                     val_dist    == Dist(val_triple.head, i)
                     pred_dist   == Dist(pred_triple.head, i)
                 IN  /\ distance_confusion' =
                            insert(distance_confusion, val_dist, pred_dist)
                     /\ deprel_confusion' =
                            insert(deprel_confusion, val_triple.relation[1],
                                   pred_triple.relation[1])
                     /\ correct_head' = correct_head +
                            (IF HeadCorrect(val_triple, pred_triple) THEN 1 ELSE 0)
                     /\ correct_head_label' = correct_head_label +
                            (IF TripleCorrect(val_triple, pred_triple) THEN 1 ELSE 0)
                     /\ total' = total + 1
                     /\ idx' = idx + 1
                     /\ pc' = IF idx + 1 < NumPairs THEN "score" ELSE "read"
            ELSE /\ pc' = "panic"
                 /\ UNCHANGED << idx, scoreVars >>
    /\ UNCHANGED << corpus, nread, val_read, pred_read,
                    val_sentence, pred_sentence, outVars, unitVars >>

\* "{:.4}" of num as f32 / den as f32: NaN when both are zero, else the
\* ratio rounded to four decimals, held in ten-thousandths
Fmt4(num, den) ==
    IF den = 0
    THEN [nan |-> TRUE, value |-> 0]
    ELSE [nan |-> FALSE, value |-> (2 * 10000 * num + den) \div (2 * den)]

\* the loop left with the two lines held back until the files are written
PrintScoresDeferred ==
    /\ pc = "print"
    /\ val_read' = "dropped"
    /\ pred_read' = "dropped"
    /\ pc' = "write"
    /\ UNCHANGED << corpus, nread, val_sentence, pred_sentence, idx,
                    val_token, pred_token, scoreVars, stdout, matches, step,
                    files, unitVars >>

\* lines 63-64: print UAS and LAS; the results of the last reads were
\* temporaries of the loop condition
PrintScores ==
    /\ pc = "print"
    /\ val_read' = "dropped"
    /\ pred_read' = "dropped"
    /\ stdout' = << [label |-> "UAS", ratio |-> Fmt4(correct_head, total)],
                    [label |-> "LAS", ratio |-> Fmt4(correct_head_label, total)] >>
    /\ pc' = "write"
    /\ UNCHANGED << corpus, nread, val_sentence, pred_sentence, idx,
                    val_token, pred_token, scoreVars, matches, step, files,
                    unitVars >>

\* ------------------------------------------- the renderings of a Confusion
\* usize::to_string: the decimal digits of n
RECURSIVE Digits(_)
Digits(n) ==
    LET digit == << "0", "1", "2", "3", "4", "5", "6", "7", "8", "9" >>
    IN  IF n < 10 THEN << digit[n + 1] >>
        ELSE Digits(n \div 10) \o << digit[(n % 10) + 1] >>

\* V::to_string: the relation labels are strings already, the distances
\* (and the values of the Confusion called on its own) are usize
to_string(c, val) == IF c.name = "Deprels" THEN << val >> ELSE Digits(val)

\* row.iter().sum::<usize>()
RECURSIVE Sum(_)
Sum(row) == IF row = << >> THEN 0 ELSE row[1] + Sum(Tail(row))

\* the positions of idx2val at which self.confusion[idx] or row[idx] is out
\* of range, where indexing panics
BadIndex(c) ==
    {k \in DOMAIN c.numberer.idx2val :
        k \notin DOMAIN c.confusion \/ k \notin DOMAIN c.confusion[k]}

\* the positions of idx2val the loops of write_accuracies and fmt get
\* through before an index panics
Rendered(c) ==
    {k \in DOMAIN c.numberer.idx2val : \A b \in BadIndex(c) : k < b}

\* a table that leaves out the classes whose row is empty
write_accuraciesSkipEmpty(c) ==
    LET kept == SelectSeq([k \in 1 .. Cardinality(Rendered(c)) |-> k],
                          LAMBDA k : Sum(c.confusion[k]) # 0)
    IN  [panic |-> BadIndex(c) # {},
         lines |-> [n \in DOMAIN kept |->
                       LET row == c.confusion[kept[n]]
                       IN  [item  |-> to_string(c, c.numberer.idx2val[kept[n]]),
                            total |-> Sum(row),
                            acc   |-> Fmt4(row[kept[n]], Sum(row))]]]

\* lines 224-233, Confusion::write_accuracies: one line of item, total and
\* "{:.04}" of correct / total for each value of idx2val
write_accuracies(c) ==
    [panic |-> BadIndex(c) # {},
     lines |-> [k \in 1 .. Cardinality(Rendered(c)) |->
                   LET row     == c.confusion[k]
                       correct == row[k]
                       tot     == Sum(row)
                   IN  [item  |-> to_string(c, c.numberer.idx2val[k]),
                        total |-> tot,
                        acc   |-> Fmt4(correct, tot)]]]

\* lines 248-254: total_correct after the loop over idx2val
total_correct(c) ==
    Sum([k \in 1 .. Cardinality(Rendered(c)) |-> c.confusion[k][k]])

\* a denominator that adds up the correct counts instead of the row sums
full_totalOfCorrect(c) ==
    Sum([k \in 1 .. Cardinality(Rendered(c)) |-> c.confusion[k][k]])

\* lines 249-256: full_total after the loop over idx2val
full_total(c) ==
    Sum([k \in 1 .. Cardinality(Rendered(c)) |-> Sum(c.confusion[k])])

\* lines 263-269: false_pos of column i, the sum of confusion[j][i], j # i
false_pos(c, i) ==
    Sum([j \in 1 .. Len(c.confusion) |->
            IF j = i THEN 0 ELSE c.confusion[j][i]])

\* lines 275-276: total_correct as f32 / full_total as f32 under "{:.4}"
fmt_acc(c) == Fmt4(total_correct(c), full_total(c))

\* lines 245-279, Display::fmt: the header, one row per value of idx2val
\* with its counts and correct / total, the precision of every column and
\* the overall accuracy
fmt(c) ==
    [panic  |-> BadIndex(c) # {},
     header |-> << c.name >> \o
                [k \in DOMAIN c.numberer.idx2val |->
                    to_string(c, c.numberer.idx2val[k])],
     rows   |-> [k \in 1 .. Cardinality(Rendered(c)) |->
                    LET row == c.confusion[k]
                    IN  [val    |-> to_string(c, c.numberer.idx2val[k]),
                         counts |-> [j \in DOMAIN row |-> Digits(row[j])],
                         acc    |-> Fmt4(row[k], Sum(row))]],
     precs  |-> IF BadIndex(c) # {} THEN << >>
                ELSE [i \in 1 .. Len(c.confusion) |->
                         Fmt4(c.confusion[i][i],
                              c.confusion[i][i] + false_pos(c, i))],
     acc    |-> IF BadIndex(c) # {} THEN << >>
                ELSE << fmt_acc(c) >>]

\* what a file that was written holds
Written(block, complete) ==
    Some([of |-> block.of, render |-> block.render, complete |-> complete])

\* an output block that skips a destination it cannot create or write and
\* goes on to the next block
WriteOutputIsolated ==
    /\ pc = "write"
    /\ step < Len(OutputBlocks)
    /\ LET block == OutputBlocks[step + 1]
           given == block.arg \in matches
       IN  \E outcome \in {"ok", "create fails", "write fails", "flush fails"} :
             /\ ~given => outcome = "ok"
             /\ files' =
                  IF ~given \/ outcome = "create fails" THEN files
                  ELSE [files EXCEPT ![block.arg] =
                            Some([of |-> block.of, render |-> block.render,
                                  complete |-> outcome = "ok"])]
             /\ pc' = IF step + 1 = Len(OutputBlocks) THEN "done" ELSE "write"
    /\ step' = step + 1
    /\ UNCHANGED << corpus, loopVars, scoreVars, stdout, matches, unitVars >>

\* line 17: the options parse_args() found, as value_of() reports them
value_of(arg) == IF arg \in matches THEN Some(arg) ELSE None

\* lines 66-87: the next output block.  Its option is looked up; if given,
\* File::create(..).unwrap() panics when the file cannot be created; the
\* rendering goes through a BufWriter, so a failing write either surfaces in
\* write!(..).unwrap() (panic) or, when the text still sits in the buffer, in
\* the flush on drop, which ignores it
WriteOutput ==
    /\ pc = "write"
    /\ step < Len(OutputBlocks)
    /\ LET block == OutputBlocks[step + 1]
           given == value_of(block.arg) # None
       IN  \E outcome \in {"ok", "create fails", "write fails", "flush fails"} :
             /\ ~given => outcome = "ok"
             /\ files' =
                  IF ~given \/ outcome = "create fails" THEN files
                  ELSE [files EXCEPT ![block.arg] = Written(block, outcome = "ok")]
             /\ pc' = IF outcome \in {"create fails", "write fails"} THEN "panic"
                      ELSE IF step + 1 = Len(OutputBlocks) THEN "done"
                      ELSE "write"
    /\ step' = step + 1
    /\ UNCHANGED << corpus, loopVars, scoreVars, stdout, matches, unitVars >>

\* ------------------------------------------- calls on a Numberer (C3, C4)
InitNumberer ==
    /\ nb = NumbererNew
    /\ nb_call = None
    /\ nb_seen = << >>
    /\ nb_calls = 0

SeenVals == {nb_seen[k].val : k \in DOMAIN nb_seen}

\* a caller invokes number(val)
NumberCall ==
    /\ nb_calls < MaxCalls
    /\ \E val \in Vals :
         LET r == number(nb, val)
         IN  /\ nb' = r.numberer
             /\ nb_call' = Some([val |-> val, ret |-> r.idx])
             /\ nb_seen' = IF val \in SeenVals THEN nb_seen
                           ELSE Append(nb_seen, [val |-> val, ret |-> r.idx])
    /\ nb_calls' = nb_calls + 1

\* ------------------------------------------ calls on a Confusion (C1, C2)
InitConfusion ==
    /\ conf = ConfusionNew("Conf")
    /\ conf_call = None
    /\ conf_seen = {}
    /\ conf_calls = 0

\* a caller invokes insert(target, prediction)
InsertCall ==
    /\ conf_calls < MaxInserts
    /\ \E target \in Vals, prediction \in Vals :
         /\ conf' = insert(conf, target, prediction)
         /\ conf_call' = Some([target |-> target, prediction |-> prediction])
         /\ conf_seen' = conf_seen \cup {target, prediction}
    /\ conf_calls' = conf_calls + 1

Init == InitNumberer /\ InitConfusion /\ InitMain /\ corpus \in Corpora

Next ==
    \/ OpenInputs
    \/ ReadSentence
    \/ ScoreToken
    \/ PrintScores
    \/ WriteOutput

Spec == Init /\ [][Next]_vars

\* a run without output options.  main() is one sequential thread: a step
\* that can be taken is taken
InitNoOptions == Init /\ matches = {}
FairSpec == InitNoOptions /\ [][Next]_vars /\ WF_vars(Next)

InitUnits ==
    InitNumberer /\ InitConfusion /\ InitMain /\ corpus = "any" /\ matches = {}

NextNumberer == NumberCall /\ UNCHANGED << confVars, mainVars >>
SpecNumberer == InitUnits /\ [][NextNumberer]_vars

NextConfusion == InsertCall /\ UNCHANGED << nbVars, mainVars >>
SpecConfusion == InitUnits /\ [][NextConfusion]_vars

\* ======================================================================
\* Claims about Confusion and Numberer
\* ======================================================================
Dim(c) == Len(c.confusion)
IsSquare(c) == \A i \in 1 .. Dim(c) : Len(c.confusion[i]) = Dim(c)

\* the matrix m padded with zeros to dimension d
Pad(m, d) ==
    [i \in 1 .. d |-> [j \in 1 .. d |->
        IF i <= Len(m) /\ j <= Len(m[i]) THEN m[i][j] ELSE 0]]

C1_Dimension ==
    /\ IsSquare(conf)
    /\ Dim(conf) = len(conf.numberer)
    /\ Dim(conf) = Cardinality(conf_seen)

C1_Growth ==
    conf_calls' = conf_calls + 1 =>
        LET call  == conf_call'[1]
            fresh == {call.target, call.prediction} \ conf_seen
            ti    == conf'.numberer.val2idx[call.target] + 1
            pi    == conf'.numberer.val2idx[call.prediction] + 1
        IN  /\ Dim(conf') = Dim(conf) + Cardinality(fresh)
            /\ \A i, j \in 1 .. Dim(conf') :
                 (i > Dim(conf) \/ j > Dim(conf)) =>
                     conf'.confusion[i][j] =
                         IF i = ti /\ j = pi THEN 1 ELSE 0

\* C1: after any sequence of insert calls the count matrix is square, its
\* dimension equals numberer.len() and the number of distinct values seen as
\* gold or predicted; each insert grows it by one row and one column per
\* newly numbered value (0, 1 or 2), the new cells starting at zero.
C1_SquareMatchesNumberer == [] C1_Dimension /\ [][C1_Growth]_vars

\* an insert of two brand-new values into a non-empty matrix has happened
C1_Witness ==
    /\ conf_calls >= 2
    /\ Dim(conf) = 3
    /\ conf_call[1].target # conf_call[1].prediction
    /\ conf.numberer.val2idx[conf_call[1].target] = 1
    /\ conf.numberer.val2idx[conf_call[1].prediction] = 2

C2_Frame ==
    conf_calls' = conf_calls + 1 =>
        LET call == conf_call'[1]
            gi   == get_number(conf'.numberer, call.target)[1]
            pi   == get_number(conf'.numberer, call.prediction)[1]
        IN  conf'.confusion =
                [Pad(conf.confusion, Dim(conf')) EXCEPT ![gi + 1][pi + 1] = @ + 1]

\* C2: the matrix after insert(gold, predicted) is the matrix before it padded
\* with zeros to the new dimension, except that the one cell
\* [index(gold)][index(predicted)] is larger by exactly one.
C2_InsertFrame == [][C2_Frame]_vars

\* a pair with a brand-new gold class was inserted after other counts existed
C2_Witness ==
    /\ conf_calls = 3
    /\ Dim(conf) = 3
    /\ conf.numberer.val2idx[conf_call[1].target] = 2
    /\ conf.numberer.val2idx[conf_call[1].prediction] = 0
    /\ conf.confusion[1][2] = 2

C3_State ==
    /\ len(nb) = Len(nb_seen)
    /\ \A v, w \in DOMAIN nb.val2idx : v # w => nb.val2idx[v] # nb.val2idx[w]
    /\ \A j, k \in DOMAIN nb_seen : j # k => nb_seen[j].ret # nb_seen[k].ret

C3_Repeat ==
    nb_calls' = nb_calls + 1 =>
        LET call == nb_call'[1]
        IN  \A k \in DOMAIN nb_seen :
                nb_seen[k].val = call.val =>
                    /\ call.ret = nb_seen[k].ret
                    /\ nb' = nb

\* C3: number(v) with an already-seen v returns the index of its first call
\* and leaves the Numberer unchanged; distinct values never share an index;
\* len() equals the count of distinct values passed to number() so far.
C3_NumbererDeterminism == [] C3_State /\ [][C3_Repeat]_vars

\* a value was numbered again after two values had been numbered
C3_Witness ==
    /\ Len(nb_seen) = 2
    /\ nb_calls = 4
    /\ nb_call[1].val = nb_seen[1].val

C4_State ==
    /\ {nb.val2idx[v] : v \in DOMAIN nb.val2idx} = 0 .. (len(nb) - 1)
    /\ DOMAIN nb.val2idx = SeenVals
    /\ \A k \in DOMAIN nb_seen :
           get_number(nb, nb_seen[k].val) = Some(k - 1)
    /\ \A v \in SeenVals :
           get_val(nb, get_number(nb, v)[1]) = Some(v)
    /\ \A i \in 0 .. (len(nb) - 1) :
           get_number(nb, get_val(nb, i)[1]) = Some(i)
    /\ \A v \in Vals \ SeenVals : get_number(nb, v) = None
    /\ \A i \in len(nb) .. (MaxCalls + 1) : get_val(nb, i) = None

C4_AppendOnly ==
    \A v \in DOMAIN nb.val2idx :
        /\ get_number(nb', v) = get_number(nb, v)
        /\ get_val(nb', nb.val2idx[v]) = get_val(nb, nb.val2idx[v])

\* C4: the two directions of a Numberer are inverse and dense in first-seen
\* order: the indices are exactly 0 .. len()-1, the k-th distinct value has
\* index k-1, get_val and get_number invert each other and return nothing
\* outside what was seen, and an assigned index is never changed or removed.
C4_NumbererBijection == [] C4_State /\ [][C4_AppendOnly]_vars

\* every value of the domain but one was numbered, then one was repeated
C4_Witness ==
    /\ Len(nb_seen) = MaxVal
    /\ nb_calls > Len(nb_seen)
    /\ Vals \ SeenVals # {}

\* ======================================================================
\* Claims about the scoring run
\* ======================================================================
NoOutput == stdout = << >> /\ \A o \in OutputOptions : files[o] = None

C5_Order == 
    /\ correct_head_label <= correct_head
    /\ correct_head <= total
    /\ (stdout # << >> /\ ~stdout[1].ratio.nan) =>
           stdout[2].ratio.value <= stdout[1].ratio.value

C5_Counting ==
    /\ correct_head' \in {correct_head, correct_head + 1}
    /\ correct_head_label' \in {correct_head_label, correct_head_label + 1}
    /\ total' \in {total, total + 1}
    /\ total' = total + 1 <=> (pc = "score" /\ idx' = idx + 1)

\* C5: at every point of a scoring run correct_head_label <= correct_head <=
\* total, so the LAS printed is at most the UAS printed; no counter ever
\* decreases and total grows by exactly one per compared token pair.
C5_CountersOrdered == [] C5_Order /\ [][C5_Counting]_vars

\* a run that got one head right with the wrong label and one head wrong
C5_Witness ==
    /\ pc = "done"
    /\ corpus = "any"
    /\ total = 2
    /\ correct_head = 1
    /\ correct_head_label = 0

RECURSIVE InsertAll(_, _)
InsertAll(c, pairs) ==
    IF pairs = << >> THEN c
    ELSE InsertAll(insert(c, pairs[1][1], pairs[1][2]), Tail(pairs))

ScenarioScored == corpus = "scenario" /\ pc \in {"print", "write", "done"}

\* the claim as written: predicted distances [1, 2, 2]
C6_AsWritten ==
    ScenarioScored =>
        /\ correct_head = 2
        /\ correct_head_label = 2
        /\ total = 3
        /\ distance_confusion =
               InsertAll(ConfusionNew("Dists"),
                         << << 1, 1 >>, << 2, 2 >>, << 1, 2 >> >>)

\* C6: scoring the scenario (gold heads [2,0,2], predicted heads [2,0,3],
\* equal labels) ends with correct_head = 2, correct_head_label = 2,
\* total = 3, and the distance confusion has received the gold distances
\* [1,2,1] against the predicted distances [1,2,0]: the predicted head 3 at
\* position 3 is at distance |3 - 3| = 0.
C6_Scenario ==
    ScenarioScored =>
        /\ correct_head = 2
        /\ correct_head_label = 2
        /\ total = 3
        /\ distance_confusion =
               InsertAll(ConfusionNew("Dists"),
                         << << 1, 1 >>, << 2, 2 >>, << 1, 0 >> >>)

\* the scenario was scored to the end and reported
C6_Witness == corpus = "scenario" /\ pc = "done" /\ total = 3

\* the two sentences in hand differ in their number of tokens
LengthMismatch ==
    Len(TokenNodes(val_sentence)) # Len(TokenNodes(pred_sentence))

C7_Failed ==
    LengthMismatch =>
        /\ pc = "panic"
        /\ idx = 0
        /\ val_token = None
        /\ pred_token = None
        /\ NoOutput

C7_NothingScored ==
    /\ pc # "panic"
    /\ LengthMismatch' => UNCHANGED scoreVars

\* C7: when the token counts of an aligned gold/predicted sentence pair
\* differ, the run fails: no token of the pair is taken or scored, nothing
\* happens after the failure, and no UAS/LAS or file is emitted.
C7_LengthMismatchFails == [] C7_Failed /\ [][C7_NothingScored]_vars

\* a gold sentence of two tokens was read with a predicted one of one token
C7_Witness ==
    /\ LengthMismatch
    /\ val_read = "Sentence"
    /\ pred_read = "Sentence"
    /\ Len(TokenNodes(val_sentence)) = 2
    /\ Len(TokenNodes(pred_sentence)) = 1

\* the token pair in hand differs in its surface forms
FormMismatch ==
    /\ val_token # None
    /\ pred_token # None
    /\ val_token[1].form # pred_token[1].form

C8_Failed == FormMismatch => pc = "panic" /\ NoOutput

C8_NothingScored ==
    /\ pc # "panic"
    /\ FormMismatch' => UNCHANGED scoreVars

\* C8: when the surface forms of an aligned token pair differ the run fails:
\* that pair is neither inserted into a Confusion nor counted, nothing
\* happens after the failure, and no UAS/LAS line or file is produced.
C8_FormMismatchFails == [] C8_Failed /\ [][C8_NothingScored]_vars

\* forms differ at the second position of a sentence, both tokens having a
\* head and a relation
C8_Witness ==
    /\ FormMismatch
    /\ idx = 1
    /\ total = 1
    /\ HasTriple(val_token[1])
    /\ HasTriple(pred_token[1])

\* what the user asks for with each option, by its name on the command line
Requested ==
    [o \in OutputOptions |->
        CASE o = "deprel_confusion"    -> [of |-> "Deprels", render |-> "Display"]
          [] o = "deprel_accuracies"   -> [of |-> "Deprels", render |-> "write_accuracies"]
          [] o = "distance_confusion"  -> [of |-> "Dists",   render |-> "Display"]
          [] o = "distance_accuracies" -> [of |-> "Dists",   render |-> "write_accuracies"]]

\* C9: each of the four optional outputs is written to a destination, with
\* the rendering that corresponds to it, if and only if that output's own
\* destination was requested.
C9_OutputsAsRequested ==
    pc = "done" =>
        \A o \in OutputOptions :
            /\ files[o] # None <=> o \in matches
            /\ files[o] # None =>
                   /\ files[o][1].of = Requested[o].of
                   /\ files[o][1].render = Requested[o].render

\* block k failed: the run ended in it, or its file was left incomplete
BlockFailed(k) ==
    LET f == files[OutputBlocks[k].arg]
    IN  \/ pc = "panic" /\ step = k
        \/ f # None /\ ~f[1].complete

\* the claim as written: one destination's failure leaves every other
\* requested destination written in full
C10_AsWritten ==
    (pc \in {"done", "panic"} /\ \E k \in DOMAIN OutputBlocks : BlockFailed(k)) =>
        \A j \in DOMAIN OutputBlocks :
            (OutputBlocks[j].arg \in matches /\ ~BlockFailed(j)) =>
                files[OutputBlocks[j].arg] = Written(OutputBlocks[j], TRUE)

C10_Aborts ==
    /\ \A k \in 1 .. step :
           (OutputBlocks[k].arg \in matches /\ files[OutputBlocks[k].arg] = None)
               => pc = "panic" /\ step = k
    /\ \A k \in (step + 1) .. Len(OutputBlocks) :
           files[OutputBlocks[k].arg] = None
    /\ pc = "done" =>
           \A o \in OutputOptions : files[o] # None <=> o \in matches

C10_Keeps ==
    /\ pc = "write" => UNCHANGED << scoreVars, stdout >>
    /\ \A o \in OutputOptions : files[o] # None => files'[o] = files[o]

\* C10: a failure to create or write a requested output destination changes
\* neither the counters and Confusion matrices nor any file written before
\* it, but it is not isolated: a destination that cannot be created ends
\* the run there, and no destination handled after it is written.  Only a
\* write failure that surfaces when the buffered writer is dropped lets the
\* remaining destinations be written.
C10_FailureAborts == [] C10_Aborts /\ [][C10_Keeps]_vars

\* the second destination could not be created after the first was written,
\* with the third requested too
C10_Witness ==
    /\ pc = "panic"
    /\ step = 2
    /\ OutputOptions \subseteq matches
    /\ files[OutputBlocks[1].arg] = Written(OutputBlocks[1], TRUE)
    /\ files[OutputBlocks[2].arg] = None
    /\ total >= 1

\* ======================================================================
\* Claims about the end of the input streams
\* ======================================================================

\* the loop condition of line 37 has just been left because one stream gave
\* a sentence while the other was at its end
StreamCountMismatch ==
    /\ pc = "print"
    /\ \/ val_read = "Sentence" /\ pred_read = "End"
       \/ val_read = "End" /\ pred_read = "Sentence"

\* C11: when the gold and the predicted stream hold different numbers of
\* sentences the run does not go on to print UAS/LAS over the common prefix
\* of sentence pairs.
C11_CountMismatchSurfaced == [][StreamCountMismatch => stdout' = << >>]_vars

\* the loop condition of line 37 has just been left because a read of one
\* of the streams failed
ReadFailed ==
    /\ pc = "print"
    /\ val_read = "Err" \/ pred_read = "Err"

\* C12: when an input cannot be opened or a read of either stream fails the
\* run stops without UAS/LAS and without any output file; a failed read is
\* not taken for the end of the input.
C12_ReadFailureFatal ==
    /\ [](pc = "exit" => NoOutput)
    /\ [][ReadFailed => stdout' = << >>]_vars

\* the token pair in hand lacks a head or a relation on either side
MissingHead ==
    /\ val_token # None
    /\ pred_token # None
    /\ ~(HasTriple(val_token[1]) /\ HasTriple(pred_token[1]))

C13_Failed == MissingHead => pc = "panic" /\ NoOutput

C13_NothingScored ==
    /\ pc # "panic"
    /\ MissingHead' => UNCHANGED scoreVars

\* C13: when a scored position has no head or no relation in the gold or in
\* the predicted sentence the run fails: that pair is neither inserted into
\* a Confusion nor counted in total, nothing is scored after it, and no
\* UAS/LAS line or file is produced; the position is never skipped.
C13_MissingHeadFails == [] C13_Failed /\ [][C13_NothingScored]_vars

\* the second token of a sentence has no head in the predicted sentence, the
\* forms being equal and the gold token complete
C13_Witness ==
    /\ MissingHead
    /\ idx = 1
    /\ total = 1
    /\ val_token[1].form = pred_token[1].form
    /\ HasTriple(val_token[1])
    /\ pred_token[1].head = None

\* ======================================================================
\* Claims about the order of reporting and writing
\* ======================================================================

\* the two lines of lines 63-64, from the counters as they stand
ScoreLines ==
    << [label |-> "UAS", ratio |-> Fmt4(correct_head, total)],
       [label |-> "LAS", ratio |-> Fmt4(correct_head_label, total)] >>

\* block k was requested and its destination could not be created
CreateFailed(k) ==
    /\ pc = "panic"
    /\ step = k
    /\ OutputBlocks[k].arg \in matches
    /\ files[OutputBlocks[k].arg] = None

C14_Printed ==
    (pc \in {"write", "done"} \/ step >= 1) => stdout = ScoreLines

C14_PrintedFirst ==
    (step' # step \/ files' # files) => stdout = ScoreLines /\ stdout' = stdout

\* C14: in a run whose scoring completes, the UAS and LAS lines are printed
\* before the first output destination is opened and stay printed, so they
\* are there when a requested destination cannot be created.
C14_ScoresBeforeOutputs == [] C14_Printed /\ [][C14_PrintedFirst]_vars

\* the first requested destination could not be created, after two token
\* pairs were scored
C14_Witness ==
    /\ CreateFailed(1)
    /\ total = 2
    /\ stdout = ScoreLines

\* ======================================================================
\* Claims about the order of inserts and the renderings of a Confusion
\* ======================================================================

\* the count a Confusion holds for gold value g and predicted value p: the
\* cell at [index(g)][index(p)], where the numberer knows both
CountOf(c, g, p) ==
    LET gi == get_number(c.numberer, g)
        pi == get_number(c.numberer, p)
    IN  IF gi = None \/ pi = None THEN None
        ELSE Some(c.confusion[gi[1] + 1][pi[1] + 1])

\* c after insert(first) and then insert(second)
InsertTwo(c, first, second) ==
    insert(insert(c, first[1], first[2]), second[1], second[2])

\* the pairs of inserts whose classes are disjoint
DisjointInserts ==
    {ab_cd \in (Vals \X Vals) \X (Vals \X Vals) :
        {ab_cd[1][1], ab_cd[1][2]} \cap {ab_cd[2][1], ab_cd[2][2]} = {}}

\* C15: from the same Confusion, inserting (a,b) then (c,d) and inserting
\* (c,d) then (a,b), for disjoint classes {a,b} and {c,d}, give results of
\* the same dimension that hold the same count for every pair of values.
\* The starting Confusions are those reached by fewer than MaxInserts
\* inserts.
C15_DisjointInsertsCommute ==
    conf_calls < MaxInserts =>
        \A ab_cd \in DisjointInserts :
            LET x == InsertTwo(conf, ab_cd[1], ab_cd[2])
                y == InsertTwo(conf, ab_cd[2], ab_cd[1])
            IN  /\ Dim(x) = Dim(y)
                /\ \A g \in Vals, p \in Vals :
                       CountOf(x, g, p) = CountOf(y, g, p)

\* after some insert there are two inserts of disjoint classes whose two
\* orders number the values differently and give different matrices
C15_Witness ==
    /\ conf_calls >= 1
    /\ \E ab_cd \in DisjointInserts :
         LET x == InsertTwo(conf, ab_cd[1], ab_cd[2])
             y == InsertTwo(conf, ab_cd[2], ab_cd[1])
         IN  /\ x.numberer # y.numberer
             /\ x.confusion # y.confusion

\* the sum of the diagonal cells and the sum of all cells of a Confusion
Diagonal(c) == Sum([k \in 1 .. Dim(c) |-> c.confusion[k][k]])
AllCells(c) == Sum([k \in 1 .. Dim(c) |-> Sum(c.confusion[k])])

\* C16: for a Confusion that received at least one insert, the overall
\* accuracy of the rendering is a ratio in [0,1]: its numerator is the sum
\* of the diagonal, its denominator the sum of all cells, the numerator is
\* at most the denominator and the denominator is greater than zero.
C16_OverallAccuracyInRange ==
    conf_calls >= 1 =>
        LET r == fmt(conf)
        IN  /\ ~r.panic
            /\ total_correct(conf) = Diagonal(conf)
            /\ full_total(conf) = AllCells(conf)
            /\ full_total(conf) = conf_calls
            /\ total_correct(conf) <= full_total(conf)
            /\ full_total(conf) > 0
            /\ r.acc # << >>
            /\ ~r.acc[1].nan
            /\ r.acc[1].value \in 0 .. 10000

\* two inserts, one on the diagonal and one off it: the accuracy is 0.5000
C16_Witness ==
    /\ conf_calls = 2
    /\ Diagonal(conf) = 1
    /\ AllCells(conf) = 2
    /\ fmt(conf).acc = << [nan |-> FALSE, value |-> 5000] >>

\* C17: write_accuracies gives one line per known class, in numbering
\* order, without an index out of range; the line of a class whose row sum
\* is 0 reports the total 0 and an accuracy that is not a number.
C17_OneLinePerClass ==
    LET r == write_accuracies(conf)
    IN  /\ ~r.panic
        /\ Len(r.lines) = len(conf.numberer)
        /\ Len(r.lines) = Cardinality(conf_seen)
        /\ \A k \in DOMAIN r.lines :
             LET rowsum == Sum(conf.confusion[k])
             IN  /\ r.lines[k].item =
                        to_string(conf, get_val(conf.numberer, k - 1)[1])
                 /\ r.lines[k].total = rowsum
                 /\ r.lines[k].acc.nan <=> rowsum = 0
                 /\ rowsum # 0 =>
                        r.lines[k].acc =
                            Fmt4(conf.confusion[k][k], rowsum)

\* the one insert so far predicted a value other than the gold one: the
\* predicted value has a line with total 0 and no accuracy
C17_Witness ==
    /\ conf_calls = 1
    /\ conf_call[1].target # conf_call[1].prediction
    /\ LET r == write_accuracies(conf)
       IN  /\ Len(r.lines) = 2
           /\ r.lines[2].item = to_string(conf, conf_call[1].prediction)
           /\ r.lines[2].total = 0
           /\ r.lines[2].acc.nan

\* ======================================================================
\* Claims about the scoring loop as a whole
\* ======================================================================

\* control has left the loop of lines 37-62 (or never entered it)
LoopLeft == pc \notin {"open", "read", "score"}

\* both readers gave a sentence in the last round
BothGave == val_read = "Sentence" /\ pred_read = "Sentence"

C18_Rounds ==
    /\ (pc = "read" /\ nread > 0) =>
           /\ BothGave
           /\ idx = Len(TokenNodes(val_sentence))
           /\ idx = Len(TokenNodes(pred_sentence))
    /\ pc = "score" => BothGave /\ idx < NumPairs
    /\ pc = "print" => nread >= 1 /\ ~BothGave
    /\ (val_read = "End" /\ pred_read = "End") => pc = "print"
    /\ pc \in {"write", "done"} => stdout # << >>

C18_Step ==
    /\ pc = "read" =>
           /\ nread' = nread + 1
           /\ pc' = "print" <=> ~BothGave'
    /\ pc = "score" =>
           /\ nread' = nread
           /\ pc' = "panic" \/ (idx' = idx + 1 /\ total' = total + 1)
    /\ pc = "print" => pc' = "write"

\* C18: the scoring loop stops.  Every round in which both streams give a
\* sentence scores that pair token by token before the next round; unless
\* the run fails, the first round in which a stream gives no sentence (both
\* at once included) leaves the loop for the reporting, so the pairs scored
\* are the first min(#gold, #predicted) ones.
C18_LoopEnds == [] C18_Rounds /\ [][C18_Step]_vars /\ <> LoopLeft

\* both streams ended in the third round, after two pairs were scored
C18_Witness ==
    /\ pc = "print"
    /\ val_read = "End"
    /\ pred_read = "End"
    /\ nread = 3
    /\ total = 2

C19_Sums ==
    /\ AllCells(deprel_confusion) = total
    /\ AllCells(distance_confusion) = total

C19_OnePerPair ==
    /\ total' \in {total, total + 1}
    /\ total' = total + 1 <=> (pc = "score" /\ pc' # "panic")
    /\ total' = total => UNCHANGED << deprel_confusion, distance_confusion >>

\* C19: at every point of a run the cells of the relation Confusion and the
\* cells of the distance Confusion both add up to total: each compared token
\* pair adds one count to each matrix and one to total, and no other step
\* changes any of the three.
C19_CellsSumToTotal == [] C19_Sums /\ [][C19_OnePerPair]_vars

\* two token pairs were scored, with two relations and two distances seen
C19_Witness ==
    /\ total = 2
    /\ Dim(deprel_confusion) = 2
    /\ Dim(distance_confusion) = 2
    /\ pc = "done"

\* the ratio shown is at least the other one, both being numbers or neither
AtLeast(shown, ratio) == shown.nan = ratio.nan /\ shown.value >= ratio.value

\* C20: at every point of a run correct_head is at most the diagonal sum of
\* the distance Confusion and correct_head_label at most the diagonal sum
\* of the relation Confusion, so the overall accuracy rendered for the
\* distance matrix is not below UAS and the one rendered for the relation
\* matrix is not below LAS.
C20_AccuracyBoundsScores ==
    LET uas == Fmt4(correct_head, total)
        las == Fmt4(correct_head_label, total)
    IN  /\ correct_head <= Diagonal(distance_confusion)
        /\ correct_head_label <= Diagonal(deprel_confusion)
        /\ AtLeast(fmt_acc(distance_confusion), uas)
        /\ AtLeast(fmt_acc(deprel_confusion), las)
        /\ stdout # << >> => stdout[1].ratio = uas /\ stdout[2].ratio = las

\* two pairs scored and reported: one with equal heads and relations, one
\* with the same relation under a different head, so that the accuracy of
\* the relation matrix lies above LAS
C20_Witness ==
    /\ pc = "done"
    /\ total = 2
    /\ correct_head = 1
    /\ correct_head_label = 1
    /\ Diagonal(distance_confusion) = 1
    /\ Diagonal(deprel_confusion) = 2
    /\ stdout[2].ratio.value < fmt_acc(deprel_confusion).value

====
